---- MODULE Spec2Model ----
(***************************************************************************)
(* A model of MySQL-MCP-Server: the read_only_query tool and the schema    *)
(* resource over a mysql2 connection pool (src/src/index.ts, the           *)
(* process-channel variant, and src/src/http-server.ts, the network        *)
(* variant), the session router of the network variant and the process     *)
(* lifecycle (configuration, startup probe, signals).                      *)
(*                                                                         *)
(* Text that the code inspects character by character (the sql argument)   *)
(* is a sequence of one-character strings; text that the code only builds  *)
(* (messages, payloads) is a string.                                       *)
(***************************************************************************)
EXTENDS Integers, Sequences, FiniteSets, TLC

VARIABLES
    \* the process
    variant,      \* which entry point runs: "stdio" (index.ts) or "http" (http-server.ts)
    proc,         \* position of the process: "start", ..., "serving", "exited"
    exit,         \* how the process ended: by process.exit(code) or by a signal
    diag,         \* the diagnostic written to stderr at a failed startup
    envFile,      \* the configuration file exists (config.env, or .env for http)
    envVars,      \* the DB_* variables are set in the process environment
    configSource, \* where the configuration was loaded from: "file", "env", "none"
    handlersInstalled, \* process.on(signal, ...) has run
    pool,         \* the pool: "none", "open", "ending", "closed", "endFailed"
    listener,     \* the HTTP listener: "none", "listening", "closing", "closed"
    clients,      \* HTTP connections open on the listener
    nsig,         \* termination signals delivered so far
    handler,      \* position of the handler run of each signal
    \* the handlers
    inv,          \* the in-flight tool / resource invocations, one record per slot
    poolLeased,   \* number of connections currently leased from the pool
    \* the session router of http-server.ts
    req,              \* the HTTP requests to /mcp, one record each
    transports,       \* the StreamableHTTPServerTransport objects created so far
    activeTransports, \* the Map from session id to transport
    serverTransport   \* the transport the McpServer was last connected to

lifeVars == <<variant, proc, exit, diag, envFile, envVars, configSource,
              handlersInstalled, pool, listener, clients, nsig, handler>>
invVars == <<inv, poolLeased>>
routerVars == <<req, transports, activeTransports, serverTransport>>
vars == <<lifeVars, invVars, routerVars>>

----------------------------------------------------------------------------
(* Bounds of the model.                                                    *)

MaxInFlight == 2      \* concurrent invocations
MaxPad == 1           \* leading white space of an input, in characters
MaxTables == 2        \* tables in a listing
MaxSignals == 2       \* termination signals delivered to the process
MaxClients == 2       \* HTTP connections open at once
MaxRequests == 3      \* HTTP requests to /mcp

(* Program constants.                                                      *)
connectionLimit == 10

Slots == 1..MaxInFlight
Signals == 1..MaxSignals

Requests == 1..MaxRequests

NoTransport == 0
NewRequest ==
    [pc |-> "new", header |-> "absent", kind |-> "none", found |-> FALSE,
     transport |-> NoTransport, status |-> 0]

Running == [by |-> "none", code |-> 0]
\* process.exit(code)
Exited(code) == [by |-> "exit", code |-> code]
\* The default disposition of SIGINT, SIGTERM and SIGQUIT.
Killed == [by |-> "signal", code |-> 0]
Variants == {"stdio", "http"}

----------------------------------------------------------------------------
(* Strings as the guard sees them.                                         *)

\* String.prototype.trim strips these (the model's alphabet has two of them).
WhiteSpace == {" ", "\n"}

\* String.prototype.toLowerCase on one character of the model's alphabet.
LowerChar(c) ==
    CASE c = "S" -> "s"
      [] c = "E" -> "e"
      [] c = "L" -> "l"
      [] c = "C" -> "c"
      [] c = "T" -> "t"
      [] c = "D" -> "d"
      [] c = "R" -> "r"
      [] c = "O" -> "o"
      [] c = "P" -> "p"
      [] OTHER -> c

toLowerCase(s) == [k \in 1..Len(s) |-> LowerChar(s[k])]

RECURSIVE trimStart(_)
trimStart(s) ==
    IF s # <<>> /\ Head(s) \in WhiteSpace THEN trimStart(Tail(s)) ELSE s

RECURSIVE trimEnd(_)
trimEnd(s) ==
    IF s # <<>> /\ s[Len(s)] \in WhiteSpace
    THEN trimEnd(SubSeq(s, 1, Len(s) - 1))
    ELSE s

trim(s) == trimEnd(trimStart(s))

startsWith(s, p) == Len(s) >= Len(p) /\ SubSeq(s, 1, Len(p)) = p

kwSelect == <<"s", "e", "l", "e", "c", "t">>


\* Faulty guards: "select" anywhere in the text; trim forgotten.
IsSelectQueryIncludes(sql) ==
    \E k \in 0..Len(sql) : startsWith(SubSeq(toLowerCase(sql), k + 1, Len(sql)), kwSelect)

IsSelectQueryNoTrim(sql) == startsWith(toLowerCase(sql), kwSelect)

\* The guard of read_only_query: the handler goes on iff this holds.
IsSelectQuery(sql) == startsWith(toLowerCase(trim(sql)), kwSelect)

\* The fixed text of the guard's rejection, which differs between the two files.
GuardMessage(v) ==
    IF v = "stdio"
    THEN "Error: Only SELECT queries are permitted for security reasons."
    ELSE "Error: Only SELECT queries are permitted."

----------------------------------------------------------------------------
(* The inputs of the model: white space, a first word, a continuation.     *)

Pads == UNION {[1..k -> WhiteSpace] : k \in 0..MaxPad}

Heads ==
    { <<"s", "e", "l", "e", "c", "t">>,
      <<"S", "e", "L", "E", "c", "T">>,
      <<"s", "e", "l", "e", "c">>,
      <<"D", "R", "O", "P", " ", "t">>,
      <<>>,
      <<"-", "-", " ", "s", "e", "l", "e", "c", "t">> }

Tails ==
    { <<>>,
      <<"x">>,
      <<" ", "1", ";", "D", "R", "O", "P", " ", "t">> }

Inputs == {p \o h \o t : p \in Pads, h \in Heads, t \in Tails}

----------------------------------------------------------------------------
(* What the database answers.                                              *)

\* Result sets of a SELECT: rows of one column.
RowSets ==
    { <<>>,
      <<[col |-> "id", val |-> 7], [col |-> "id", val |-> 8]>> }

ConnectErrors == {"connect ECONNREFUSED 127.0.0.1:3306"}
QueryErrors == {"You have an error in your SQL syntax", "SELECT command denied to user"}

\* SHOW TABLES lists base tables and views alike.
BaseTables == {"events", "users"}
Views == {"v_recent"}
TableNames == BaseTables \cup Views

IsInjective(f) == \A a, b \in DOMAIN f : f[a] = f[b] => a = b

Listings ==
    UNION {{f \in [1..k -> TableNames] : IsInjective(f)} : k \in 0..MaxTables}

\* The statement the database holds for an object.
Definition(t) ==
    IF t \in Views
    THEN "CREATE VIEW " \o t \o " AS select 1"
    ELSE "CREATE TABLE " \o t \o " (id int)"

\* The rows of SHOW CREATE TABLE t: one row, whose columns depend on
\* whether t is a base table or a view.
ShowCreateRows(t) ==
    IF t \in Views
    THEN << ("View" :> t) @@ ("Create View" :> Definition(t)) >>
    ELSE << ("Table" :> t) @@ ("Create Table" :> Definition(t)) >>

----------------------------------------------------------------------------
(* JavaScript values as text.                                              *)

\* row[key] inside a template literal: a missing property prints "undefined".
TemplateGet(row, key) == IF key \in DOMAIN row THEN row[key] ELSE "undefined"

JSONrow(r) == "{\"" \o r.col \o "\":" \o ToString(r.val) \o "}"

RECURSIVE JSONjoin(_)
JSONjoin(rows) ==
    IF rows = <<>> THEN ""
    ELSE IF Len(rows) = 1 THEN JSONrow(rows[1])
    ELSE JSONrow(rows[1]) \o "," \o JSONjoin(Tail(rows))

\* JSON.stringify of an array of rows.
JSONstringify(rows) == "[" \o JSONjoin(rows) \o "]"


----------------------------------------------------------------------------
(* One invocation of a handler.                                            *)
(*   kind       "tool" (read_only_query) or "schema" (mysql://schemas)     *)
(*   pc         the await the handler is suspended at, or "done"           *)
(*   sql        the tool's argument                                        *)
(*   conn       whether the local variable connection holds a connection   *)
(*   leases     connections this invocation obtained from the pool         *)
(*   releases   calls of connection.release() by this invocation           *)
(*   sent       the statements passed to connection.query, in order        *)
(*   tables     the table names of the listing (schema)                    *)
(*   allSchemas the text accumulated so far (schema)                       *)
(*   reply      what the awaited call last settled with: the local rows,   *)
(*              or the error the catch clause received                     *)
(*   out        what the handler returned or threw                         *)

NoOut == [type |-> "none", isError |-> FALSE, text |-> ""]
NoReply == [type |-> "none", rows |-> <<>>, message |-> ""]
Rows(rows) == [type |-> "rows", rows |-> rows, message |-> ""]
\* An Error object with its message.
Error(message) == [type |-> "error", rows |-> <<>>, message |-> message]

IdleSlot ==
    [kind |-> "none", pc |-> "idle", sql |-> <<>>, conn |-> FALSE,
     leases |-> 0, releases |-> 0, sent |-> <<>>, tables |-> <<>>,
     allSchemas |-> "", reply |-> NoReply, out |-> NoOut]

\* { content: [{ type: "text", text }], isError: true }
ErrorEnvelope(text) == [type |-> "envelope", isError |-> TRUE, text |-> text]

\* { content: [{ type: "text", text }] }
SuccessEnvelope(text) == [type |-> "envelope", isError |-> FALSE, text |-> text]

\* { contents: [{ uri, text }] }
Contents(text) == [type |-> "contents", isError |-> FALSE, text |-> text]

\* throw new Error(message)
Thrown(message) == [type |-> "thrown", isError |-> TRUE, text |-> message]

\* A faulty finally clause that releases nothing.
finallyForgotten(s) == s

\* finally { if (connection) connection.release(); }
finallyRelease(s) ==
    IF s.conn THEN [s EXCEPT !.releases = @ + 1, !.conn = FALSE] ELSE s

\* The handler has run to its end with result out.
Finish(s, out) == [finallyRelease(s) EXCEPT !.pc = "done", !.out = out]

\* The pool's count follows the leases and releases of slot i.
PoolFollows(i) ==
    poolLeased' = poolLeased + (inv'[i].leases - inv[i].leases)
                             - (inv'[i].releases - inv[i].releases)

\* connection.query(text) is called.
Send(s, by, text) == [s EXCEPT !.sent = Append(@, [by |-> by, text |-> text])]

StmtShowTables == "SHOW TABLES;"
\* The code quotes the name in backticks, which the model leaves out.
StmtShowCreate(t) == "SHOW CREATE TABLE " \o t \o ";"

----------------------------------------------------------------------------
(* read_only_query                                                         *)

\* A request can reach the handlers: over stdin, which the process reads to
\* its end, or over HTTP, through the listener or through a connection that
\* was accepted before the listener was told to close.
CanArrive == variant = "stdio" \/ listener = "listening" \/ clients > 0

\* A faulty catch clause that sends the statement once more before giving up.
ToolCatchRetries(s) ==
    IF s.conn /\ Len(s.sent) < 2
    THEN Send([s EXCEPT !.pc = "query"], "tool", s.sql)
    ELSE Finish(s, ErrorEnvelope("Database query failed: " \o s.reply.message))

\* A faulty catch clause that rethrows, as the resource's does.
ToolCatchRethrows(s) ==
    Finish(s, Thrown("Database query failed: " \o s.reply.message))

\* catch (error) { return { ..., isError: true } } and the finally clause.
ToolCatch(s) ==
    Finish(s, ErrorEnvelope("Database query failed: " \o s.reply.message))

\* The handler is entered: the guard, then up to await pool.getConnection().
ToolCall(i, sql) ==
    /\ proc = "serving" /\ CanArrive
    /\ inv[i].pc = "idle"
    /\ inv' = [inv EXCEPT ![i] =
                 IF ~IsSelectQuery(sql)
                 THEN [IdleSlot EXCEPT !.kind = "tool", !.sql = sql, !.pc = "done",
                                       !.out = ErrorEnvelope(GuardMessage(variant))]
                 ELSE [IdleSlot EXCEPT !.kind = "tool", !.sql = sql,
                                       !.pc = "getConnection"]]
    /\ UNCHANGED <<lifeVars, poolLeased, routerVars>>

\* A faulty continuation that queries the trimmed text.
ToolGetConnectionResolvedTrimmed(i) ==
    /\ inv[i].kind = "tool" /\ inv[i].pc = "getConnection"
    /\ pool = "open" /\ poolLeased < connectionLimit
    /\ inv' = [inv EXCEPT ![i] =
                 Send([@ EXCEPT !.conn = TRUE, !.leases = @ + 1, !.pc = "query"],
                      "tool", trim(@.sql))]
    /\ PoolFollows(i)
    /\ UNCHANGED <<lifeVars, routerVars>>

\* pool.getConnection() resolves, which takes an open pool with a connection
\* to spare (a call on a full pool waits, one on a pool that pool.end() was
\* called on rejects); the handler calls connection.query(sql).
ToolGetConnectionResolved(i) ==
    /\ inv[i].kind = "tool" /\ inv[i].pc = "getConnection"
    /\ pool = "open" /\ poolLeased < connectionLimit
    /\ inv' = [inv EXCEPT ![i] =
                 Send([@ EXCEPT !.conn = TRUE, !.leases = @ + 1, !.pc = "query"],
                      "tool", @.sql)]
    /\ PoolFollows(i)
    /\ UNCHANGED <<lifeVars, routerVars>>

\* pool.getConnection() rejects: catch, then finally with no connection.
ToolGetConnectionRejected(i, err) ==
    /\ inv[i].kind = "tool" /\ inv[i].pc = "getConnection"
    /\ inv' = [inv EXCEPT ![i] = ToolCatch([@ EXCEPT !.reply = Error(err)])]
    /\ PoolFollows(i)
    /\ UNCHANGED <<lifeVars, routerVars>>

\* connection.query(sql) resolves with rows.
ToolQueryResolved(i, rows) ==
    /\ inv[i].kind = "tool" /\ inv[i].pc = "query"
    /\ inv' = [inv EXCEPT ![i] =
                 Finish([@ EXCEPT !.reply = Rows(rows)],
                        SuccessEnvelope(JSONstringify(rows)))]
    /\ PoolFollows(i)
    /\ UNCHANGED <<lifeVars, routerVars>>

\* connection.query(sql) rejects.
ToolQueryRejected(i, err) ==
    /\ inv[i].kind = "tool" /\ inv[i].pc = "query"
    /\ inv' = [inv EXCEPT ![i] = ToolCatch([@ EXCEPT !.reply = Error(err)])]
    /\ PoolFollows(i)
    /\ UNCHANGED <<lifeVars, routerVars>>


----------------------------------------------------------------------------
(* The schema resource                                                     *)

\* catch (error) { throw new Error(...) } and the finally clause.
SchemaCatch(s) ==
    Finish(s, Thrown("Failed to fetch schemas: " \o s.reply.message))

\* The handler is entered and suspends at await pool.getConnection().
SchemaRead(i) ==
    /\ proc = "serving" /\ CanArrive
    /\ inv[i].pc = "idle"
    /\ inv' = [inv EXCEPT ![i] =
                 [IdleSlot EXCEPT !.kind = "schema", !.pc = "getConnection"]]
    /\ UNCHANGED <<lifeVars, poolLeased, routerVars>>

\* pool.getConnection() resolves; the handler queries SHOW TABLES.
SchemaGetConnectionResolved(i) ==
    /\ inv[i].kind = "schema" /\ inv[i].pc = "getConnection"
    /\ pool = "open" /\ poolLeased < connectionLimit
    /\ inv' = [inv EXCEPT ![i] =
                 Send([@ EXCEPT !.conn = TRUE, !.leases = @ + 1, !.pc = "showTables"],
                      "schema", StmtShowTables)]
    /\ PoolFollows(i)
    /\ UNCHANGED <<lifeVars, routerVars>>

SchemaGetConnectionRejected(i, err) ==
    /\ inv[i].kind = "schema" /\ inv[i].pc = "getConnection"
    /\ inv' = [inv EXCEPT ![i] = SchemaCatch([@ EXCEPT !.reply = Error(err)])]
    /\ PoolFollows(i)
    /\ UNCHANGED <<lifeVars, routerVars>>

\* SHOW TABLES resolves with a listing: the loop starts, or, with no table,
\* the handler returns the empty text.
ShowTablesResolved(i, listing) ==
    /\ inv[i].kind = "schema" /\ inv[i].pc = "showTables"
    /\ inv' = [inv EXCEPT ![i] =
                 IF listing = <<>>
                 THEN Finish(@, Contents(""))
                 ELSE Send([@ EXCEPT !.tables = listing, !.pc = "showCreate"],
                           "schema", StmtShowCreate(listing[1]))]
    /\ PoolFollows(i)
    /\ UNCHANGED <<lifeVars, routerVars>>

ShowTablesRejected(i, err) ==
    /\ inv[i].kind = "schema" /\ inv[i].pc = "showTables"
    /\ inv' = [inv EXCEPT ![i] = SchemaCatch([@ EXCEPT !.reply = Error(err)])]
    /\ PoolFollows(i)
    /\ UNCHANGED <<lifeVars, routerVars>>

\* The table whose definition the handler is waiting for.
CurrentTable(s) == s.tables[Len(s.sent) - 1]

\* One turn of the loop body after its await: read the "Create Table" column
\* of the first row and append it, then go on to the next table or return.
LoopBody(s, rows) ==
    LET createTableStatement == TemplateGet(rows[1], "Create Table")
        all == s.allSchemas \o createTableStatement \o ";\n\n"
        k == Len(s.sent) - 1
    IN  IF k = Len(s.tables)
        THEN Finish([s EXCEPT !.allSchemas = all], Contents(all))
        ELSE Send([s EXCEPT !.allSchemas = all], "schema",
                  StmtShowCreate(s.tables[k + 1]))

\* SHOW CREATE TABLE resolves.
ShowCreateResolved(i) ==
    /\ inv[i].kind = "schema" /\ inv[i].pc = "showCreate"
    /\ inv' = [inv EXCEPT ![i] = LoopBody(@, ShowCreateRows(CurrentTable(@)))]
    /\ PoolFollows(i)
    /\ UNCHANGED <<lifeVars, routerVars>>

\* SHOW CREATE TABLE rejects (the table is gone, or may not be read).
ShowCreateRejected(i, err) ==
    /\ inv[i].kind = "schema" /\ inv[i].pc = "showCreate"
    /\ inv' = [inv EXCEPT ![i] = SchemaCatch([@ EXCEPT !.reply = Error(err)])]
    /\ PoolFollows(i)
    /\ UNCHANGED <<lifeVars, routerVars>>

\* The protocol server has sent the handler's result; the slot is free again.
Return(i) ==
    /\ inv[i].pc = "done"
    /\ inv' = [inv EXCEPT ![i] = IdleSlot]
    /\ UNCHANGED <<lifeVars, poolLeased, routerVars>>

----------------------------------------------------------------------------
(* The serving process: both handlers, any interleaving.                   *)

\* The process after a successful startup, before any signal.
Serving(v) ==
    /\ variant = v
    /\ proc = "serving"
    /\ exit = Running
    /\ diag = "none"
    /\ envFile = TRUE /\ envVars = FALSE /\ configSource = "file"
    /\ handlersInstalled = TRUE
    /\ pool = "open"
    /\ listener = IF v = "http" THEN "listening" ELSE "none"
    /\ clients = 0
    /\ nsig = 0
    /\ handler = [k \in Signals |-> "none"]

\* No request has reached /mcp yet.
RouterIdle ==
    /\ req = [r \in Requests |-> NewRequest]
    /\ transports = <<>>
    /\ activeTransports = [sid \in {} |-> NoTransport]
    /\ serverTransport = NoTransport

Init ==
    /\ \E v \in Variants : Serving(v)
    /\ inv = [i \in Slots |-> IdleSlot]
    /\ poolLeased = 0
    /\ RouterIdle

Next ==
    \/ \E i \in Slots, sql \in Inputs : ToolCall(i, sql)
    \/ \E i \in Slots : ToolGetConnectionResolved(i)
    \/ \E i \in Slots, err \in ConnectErrors : ToolGetConnectionRejected(i, err)
    \/ \E i \in Slots, rows \in RowSets : ToolQueryResolved(i, rows)
    \/ \E i \in Slots, err \in QueryErrors : ToolQueryRejected(i, err)
    \/ \E i \in Slots : SchemaRead(i)
    \/ \E i \in Slots : SchemaGetConnectionResolved(i)
    \/ \E i \in Slots, err \in ConnectErrors : SchemaGetConnectionRejected(i, err)
    \/ \E i \in Slots, listing \in Listings : ShowTablesResolved(i, listing)
    \/ \E i \in Slots, err \in QueryErrors : ShowTablesRejected(i, err)
    \/ \E i \in Slots : ShowCreateResolved(i)
    \/ \E i \in Slots, err \in QueryErrors : ShowCreateRejected(i, err)
    \/ \E i \in Slots : Return(i)

Spec == Init /\ [][Next]_vars


----------------------------------------------------------------------------
(* Vocabulary of the properties, written without the model's helpers.      *)

Blank == {" ", "\t", "\n", "\r"}

LetterOf(c) ==
    CASE c \in {"s", "S"} -> "s"
      [] c \in {"e", "E"} -> "e"
      [] c \in {"l", "L"} -> "l"
      [] c \in {"c", "C"} -> "c"
      [] c \in {"t", "T"} -> "t"
      [] OTHER -> "?"

\* After k blank characters the text reads s-e-l-e-c-t in either case.
SelectAt(s, k) ==
    /\ Len(s) >= k + 6
    /\ \A j \in 1..k : s[j] \in Blank
    /\ <<LetterOf(s[k + 1]), LetterOf(s[k + 2]), LetterOf(s[k + 3]),
         LetterOf(s[k + 4]), LetterOf(s[k + 5]), LetterOf(s[k + 6])>>
         = <<"s", "e", "l", "e", "c", "t">>

\* The trimmed, lowercased form of s begins with "select".
BeginsWithSelect(s) == \E k \in 0..Len(s) : SelectAt(s, k)

WordChars ==
    {"s", "e", "l", "c", "t", "S", "E", "L", "C", "T", "x", "1",
     "D", "R", "O", "P", "d", "r", "o", "p", "_"}

\* The leading token of s, a maximal run of word characters, is "select".
FirstTokenIsSelect(s) ==
    \E k \in 0..Len(s) :
        /\ SelectAt(s, k)
        /\ Len(s) > k + 6 => s[k + 7] \notin WordChars

ToolSlots == {i \in Slots : inv[i].kind = "tool"}
SchemaSlots == {i \in Slots : inv[i].kind = "schema"}

GuardTexts ==
    {"Error: Only SELECT queries are permitted for security reasons.",
     "Error: Only SELECT queries are permitted."}

\* The invocation in slot i ended at the guard.
GuardRejected(i) ==
    /\ inv[i].pc = "done"
    /\ inv[i].out.type = "envelope" /\ inv[i].out.isError
    /\ inv[i].out.text \in GuardTexts

\* C1: a tool call whose text does not begin with "select" once trimmed and
\* lowercased has returned the error envelope with the fixed message, has
\* leased no connection and has sent no statement.
C1_RejectedWithoutDatabase ==
    \A i \in ToolSlots :
        ~BeginsWithSelect(inv[i].sql) =>
            /\ GuardRejected(i)
            /\ inv[i].leases = 0 /\ ~inv[i].conn
            /\ inv[i].sent = <<>>
            /\ \A j \in ToolSlots : GuardRejected(j) => inv[j].out.text = inv[i].out.text

\* C1 happens: the empty text, a blank text and a text that opens with a
\* comment are rejected.
C1_Witness ==
    \E i, j \in ToolSlots :
        /\ inv[i].sql # <<>> /\ inv[i].sql[1] = "-" /\ GuardRejected(i)
        /\ inv[j].sql \in {<<>>, <<" ">>} /\ GuardRejected(j)

\* C2: an invocation holds at most one connection, has released it exactly
\* once when it has returned or thrown, whichever way it ended, and one that
\* never obtained a connection releases none; the pool's count is the number
\* of connections held.
C2_ReleasedExactlyOnce ==
    /\ \A i \in Slots :
        /\ inv[i].releases <= inv[i].leases /\ inv[i].leases <= 1
        /\ inv[i].conn <=> (inv[i].leases = 1 /\ inv[i].releases = 0)
        /\ inv[i].pc \in {"query", "showTables", "showCreate"} => inv[i].conn
        /\ inv[i].pc = "done" =>
            /\ inv[i].releases = inv[i].leases
            /\ inv[i].sent # <<>> => inv[i].leases = 1
            /\ inv[i].sent = <<>> => inv[i].leases = 0
    /\ poolLeased = Cardinality({i \in Slots : inv[i].conn})

\* C2 happens: concurrently, a schema read aborted after its listing and a
\* query failed, each having leased one connection.
C2_Witness ==
    \E i \in SchemaSlots, j \in ToolSlots :
        /\ inv[i].pc = "done" /\ inv[i].out.type = "thrown"
        /\ Len(inv[i].sent) = 2 /\ inv[i].releases = 1
        /\ inv[j].pc = "done" /\ inv[j].reply.type = "error"
        /\ inv[j].sent # <<>> /\ inv[j].releases = 1

\* C3: a tool call whose text begins with "select" is not stopped by the
\* guard, passes the caller's text unchanged in at most one query call, and
\* when the query has resolved returns a success envelope whose text is the
\* JSON of the rows.
C3_ForwardedVerbatim ==
    \A i \in ToolSlots :
        BeginsWithSelect(inv[i].sql) =>
            /\ ~GuardRejected(i)
            /\ Len(inv[i].sent) <= 1
            /\ \A k \in 1..Len(inv[i].sent) :
                 inv[i].sent[k].by = "tool" /\ inv[i].sent[k].text = inv[i].sql
            /\ inv[i].pc = "query" => Len(inv[i].sent) = 1
            /\ inv[i].reply.type = "rows" =>
                /\ inv[i].pc = "done" /\ Len(inv[i].sent) = 1
                /\ inv[i].out.type = "envelope" /\ ~inv[i].out.isError
                /\ inv[i].reply.rows = <<>> => inv[i].out.text = "[]"
                /\ inv[i].reply.rows =
                     <<[col |-> "id", val |-> 7], [col |-> "id", val |-> 8]>>
                   => inv[i].out.text = "[{\"id\":7},{\"id\":8}]"

\* C3 happens: a text with leading white space and a statement after a
\* semicolon was sent and answered with rows.
C3_Witness ==
    \E i \in ToolSlots :
        /\ inv[i].sql # <<>> /\ inv[i].sql[1] \in Blank
        /\ \E k \in 1..Len(inv[i].sql) : inv[i].sql[k] = ";"
        /\ inv[i].reply.type = "rows" /\ inv[i].reply.rows # <<>>
        /\ ~inv[i].out.isError


\* s has a statement, a non-blank stretch between semicolons, that does not
\* begin with "select".
ContainsNonSelectStatement(s) ==
    \E a, b \in 1..Len(s) :
        /\ a <= b
        /\ a = 1 \/ s[a - 1] = ";"
        /\ b = Len(s) \/ s[b + 1] = ";"
        /\ \A k \in a..b : s[k] # ";"
        /\ \E k \in a..b : s[k] \notin Blank
        /\ ~BeginsWithSelect(SubSeq(s, a, b))

\* C4 (as the README states it): no text holding a statement other than
\* SELECT reaches the database, and every such text is rejected by the guard.
C4_OnlySelectReachesDatabase ==
    \A i \in ToolSlots :
        /\ \A k \in 1..Len(inv[i].sent) :
             ~ContainsNonSelectStatement(inv[i].sent[k].text)
        /\ ContainsNonSelectStatement(inv[i].sql) => GuardRejected(i)

RECURSIVE ConcatDefinitions(_)
ConcatDefinitions(tables) ==
    IF tables = <<>> THEN ""
    ELSE Definition(Head(tables)) \o ";\n\n" \o ConcatDefinitions(Tail(tables))

\* C6 (as stated): a schema read that has ended either threw one error, or
\* returned a non-empty text made of the definition of every listed table;
\* after a failed step it threw.
C6_AllDefinitionsOrError ==
    \A i \in SchemaSlots :
        inv[i].pc = "done" =>
            /\ inv[i].reply.type = "error" => inv[i].out.type = "thrown"
            /\ \/ inv[i].out.type = "thrown"
               \/ /\ inv[i].out.type = "contents"
                  /\ inv[i].out.text # ""
                  /\ inv[i].out.text = ConcatDefinitions(inv[i].tables)

\* C7: a tool call never throws; one whose lease or query failed has ended
\* with an error envelope carrying the failure's text, and the process goes
\* on serving: a free slot takes the next call.
C7_FailureIsAnEnvelope ==
    \A i \in ToolSlots :
        /\ inv[i].out.type # "thrown"
        /\ inv[i].reply.type = "error" =>
            /\ inv[i].pc = "done"
            /\ inv[i].out.type = "envelope" /\ inv[i].out.isError
            /\ inv[i].reply.message \in ConnectErrors \cup QueryErrors
            /\ inv[i].out.text = "Database query failed: " \o inv[i].reply.message
            /\ proc = "serving"
            /\ \A j \in Slots : inv[j].pc = "idle" => ENABLED ToolCall(j, inv[i].sql)

\* C7 happens: one call failed at the lease, another at the query.
C7_Witness ==
    \E i, j \in ToolSlots :
        /\ inv[i].reply.type = "error" /\ inv[i].sent = <<>>
        /\ inv[j].reply.type = "error" /\ inv[j].sent # <<>>

\* C9 (as stated): the guard lets a text through iff its leading token is
\* exactly "select".
C9_ExactToken ==
    \A i \in ToolSlots : ~GuardRejected(i) <=> FirstTokenIsSelect(inv[i].sql)

\* C9 (amended): the guard lets a text through iff its trimmed, lowercased
\* form begins with the six letters "select", whatever follows them.
C9_PrefixOnly ==
    \A i \in ToolSlots : ~GuardRejected(i) <=> BeginsWithSelect(inv[i].sql)

\* C9 happens: a text whose first token is longer than "select" was sent to
\* the database.
C9_Witness ==
    \E i \in ToolSlots :
        /\ BeginsWithSelect(inv[i].sql) /\ ~FirstTokenIsSelect(inv[i].sql)
        /\ Len(inv[i].sent) = 1


----------------------------------------------------------------------------
(* The process: startup and shutdown.                                      *)

DiagConfigMissing == "ERROR: Configuration file not found."
DiagStartupError == "Server startup error:"
DiagFatalStartup == "Fatal error during server startup:"

\* process.exit(code), after writing d to stderr.
ExitWith(code, d) ==
    /\ proc' = "exited"
    /\ exit' = Exited(code)
    /\ diag' = d

\* index.ts: if (fs.existsSync(userConfigFile)) dotenv.config(...) else exit(1).
StdioLoadConfig ==
    /\ variant = "stdio" /\ proc = "start"
    /\ IF envFile
       THEN /\ configSource' = "file"
            /\ proc' = "setup"
            /\ UNCHANGED <<exit, diag>>
       ELSE /\ ExitWith(1, DiagConfigMissing)
            /\ UNCHANGED configSource
    /\ UNCHANGED <<variant, envFile, envVars, handlersInstalled, pool, listener,
                   clients, nsig, handler, invVars, routerVars>>

\* index.ts: createPool, the registrations, process.on for the three signals,
\* then startServer() up to await server.connect(transport).
StdioSetup ==
    /\ variant = "stdio" /\ proc = "setup"
    /\ pool' = "open"
    /\ handlersInstalled' = TRUE
    /\ proc' = "connecting"
    /\ UNCHANGED <<variant, exit, diag, envFile, envVars, configSource, listener,
                   clients, nsig, handler, invVars, routerVars>>

\* server.connect(transport) resolves: the server runs on stdio.
StdioConnectResolved ==
    /\ variant = "stdio" /\ proc = "connecting"
    /\ proc' = "serving"
    /\ UNCHANGED <<variant, exit, diag, envFile, envVars, configSource,
                   handlersInstalled, pool, listener, clients, nsig, handler, invVars, routerVars>>

\* server.connect(transport) rejects: startServer().catch exits with 1.
StdioConnectRejected ==
    /\ variant = "stdio" /\ proc = "connecting"
    /\ ExitWith(1, DiagStartupError)
    /\ UNCHANGED <<variant, envFile, envVars, configSource, handlersInstalled, pool,
                   listener, clients, nsig, handler, invVars, routerVars>>

\* dotenv.config() reads .env when there is one and never fails; without it
\* the process environment is what there is.
DotenvConfig == IF envFile THEN "file" ELSE IF envVars THEN "env" ELSE "none"

\* http-server.ts: dotenv.config(), createPool, up to the probe's
\* await pool.getConnection().
HttpLoadConfig ==
    /\ variant = "http" /\ proc = "start"
    /\ configSource' = DotenvConfig
    /\ pool' = "open"
    /\ proc' = "probe"
    /\ UNCHANGED <<variant, exit, diag, envFile, envVars, handlersInstalled, listener,
                   clients, nsig, handler, invVars, routerVars>>

\* A faulty probe that keeps its connection.
probeReleaseForgotten(n) == n

\* connection.release() of the probe: the pool has its connection back.
probeRelease(n) == n - 1

\* The probe resolves with a connection, which is released at once; then the
\* registrations, app.listen and the signal handlers.
HttpProbeResolved ==
    /\ variant = "http" /\ proc = "probe"
    /\ poolLeased < connectionLimit
    /\ poolLeased' = probeRelease(poolLeased + 1)
    /\ listener' = "listening"
    /\ handlersInstalled' = TRUE
    /\ proc' = "serving"
    /\ UNCHANGED <<variant, exit, diag, envFile, envVars, configSource, pool,
                   clients, nsig, handler, inv, routerVars>>

\* The probe rejects: the catch of the async function exits with 1.
HttpProbeRejected ==
    /\ variant = "http" /\ proc = "probe"
    /\ ExitWith(1, DiagFatalStartup)
    /\ UNCHANGED <<variant, envFile, envVars, configSource, handlersInstalled, pool,
                   listener, clients, nsig, handler, invVars, routerVars>>

\* An HTTP client opens a connection (a keep-alive connection or a stream).
ClientConnect ==
    /\ proc = "serving" /\ listener = "listening"
    /\ clients < MaxClients
    /\ clients' = clients + 1
    /\ UNCHANGED <<variant, proc, exit, diag, envFile, envVars, configSource,
                   handlersInstalled, pool, listener, nsig, handler, invVars, routerVars>>

ClientDisconnect ==
    /\ proc # "exited"
    /\ clients > 0
    /\ clients' = clients - 1
    /\ UNCHANGED <<variant, proc, exit, diag, envFile, envVars, configSource,
                   handlersInstalled, pool, listener, nsig, handler, invVars, routerVars>>

\* pool.end() is called.
PoolEndCalled == IF pool = "open" THEN "ending" ELSE pool

\* A faulty handler that does not await pool.end() before process.exit(0).
OnSignalNoAwait(k) ==
    /\ pool' = PoolEndCalled
    /\ handler' = [handler EXCEPT ![k] = "done"]
    /\ proc' = "exited"
    /\ exit' = Exited(0)
    /\ UNCHANGED listener

\* The handler of a signal, up to its first suspension.
\*   stdio: await pool.end()
\*   http:  httpServer.close(callback), which stops the listener accepting
OnSignal(k) ==
    /\ IF variant = "stdio"
       THEN /\ pool' = PoolEndCalled
            /\ handler' = [handler EXCEPT ![k] = "awaitPoolEnd"]
            /\ UNCHANGED listener
       ELSE /\ listener' = IF listener = "listening" THEN "closing" ELSE listener
            /\ handler' = [handler EXCEPT ![k] = "awaitClose"]
            /\ UNCHANGED pool
    /\ UNCHANGED <<proc, exit>>

\* SIGINT, SIGTERM or SIGQUIT is delivered: the handler runs if it is
\* installed, otherwise the signal ends the process.
Signal ==
    /\ proc # "exited"
    /\ nsig < MaxSignals
    /\ nsig' = nsig + 1
    /\ IF handlersInstalled
       THEN OnSignal(nsig + 1)
       ELSE /\ proc' = "exited"
            /\ exit' = Killed
            /\ UNCHANGED <<pool, listener, handler>>
    /\ UNCHANGED <<variant, diag, envFile, envVars, configSource, handlersInstalled,
                   clients, invVars, routerVars>>

\* The listener has closed (no handle, no connection left): the callback
\* given to httpServer.close runs up to await pool.end().
ListenerClosed(k) ==
    /\ proc # "exited"
    /\ handler[k] = "awaitClose"
    /\ clients = 0
    /\ listener' = "closed"
    /\ pool' = PoolEndCalled
    /\ handler' = [handler EXCEPT ![k] = "awaitPoolEnd"]
    /\ UNCHANGED <<variant, proc, exit, diag, envFile, envVars, configSource,
                   handlersInstalled, clients, nsig, invVars, routerVars>>

\* pool.end() resolves: the handler logs and calls process.exit(0).
PoolEndResolved(k) ==
    /\ proc # "exited"
    /\ handler[k] = "awaitPoolEnd"
    /\ pool' = "closed"
    /\ handler' = [handler EXCEPT ![k] = "done"]
    /\ proc' = "exited"
    /\ exit' = Exited(0)
    /\ UNCHANGED <<variant, diag, envFile, envVars, configSource, handlersInstalled,
                   listener, clients, nsig, invVars, routerVars>>

\* pool.end() rejects: nothing catches the rejection of the async handler,
\* and Node ends the process with status 1.
PoolEndRejected(k) ==
    /\ proc # "exited"
    /\ handler[k] = "awaitPoolEnd"
    /\ pool' = "endFailed"
    /\ handler' = [handler EXCEPT ![k] = "failed"]
    /\ proc' = "exited"
    /\ exit' = Exited(1)
    /\ UNCHANGED <<variant, diag, envFile, envVars, configSource, handlersInstalled,
                   listener, clients, nsig, invVars, routerVars>>

LifeInit ==
    /\ variant \in Variants
    /\ proc = "start"
    /\ exit = Running
    /\ diag = "none"
    /\ envFile \in BOOLEAN /\ envVars \in BOOLEAN
    /\ configSource = "none"
    /\ handlersInstalled = FALSE
    /\ pool = "none"
    /\ listener = "none"
    /\ clients = 0
    /\ nsig = 0
    /\ handler = [k \in Signals |-> "none"]
    /\ inv = [i \in Slots |-> IdleSlot]
    /\ poolLeased = 0
    /\ RouterIdle

LifeNext ==
    \/ StdioLoadConfig
    \/ StdioSetup
    \/ StdioConnectResolved
    \/ StdioConnectRejected
    \/ HttpLoadConfig
    \/ HttpProbeResolved
    \/ HttpProbeRejected
    \/ ClientConnect
    \/ ClientDisconnect
    \/ Signal
    \/ \E k \in Signals : ListenerClosed(k)
    \/ \E k \in Signals : PoolEndResolved(k)
    \/ \E k \in Signals : PoolEndRejected(k)

\* The event loop runs every continuation that is ready; when clients
\* disconnect and when signals arrive is up to the environment.
LifeFairness ==
    /\ WF_vars(StdioLoadConfig) /\ WF_vars(StdioSetup)
    /\ WF_vars(StdioConnectResolved \/ StdioConnectRejected)
    /\ WF_vars(HttpLoadConfig)
    /\ WF_vars(HttpProbeResolved \/ HttpProbeRejected)
    /\ \A k \in Signals : WF_vars(ListenerClosed(k))
    /\ \A k \in Signals : WF_vars(PoolEndResolved(k) \/ PoolEndRejected(k))

LifeSpec == LifeInit /\ [][LifeNext]_vars /\ LifeFairness


----------------------------------------------------------------------------
(* Properties of the process.                                              *)

SignalHandled == \E k \in Signals : handler[k] # "none"

ExitedZero == proc = "exited" /\ exit = [by |-> "exit", code |-> 0]

\* C8 (as stated): once a termination signal has reached the handler, the
\* process eventually has closed the pool and exited with status 0.
C8_SignalLeadsToExitZero == SignalHandled ~> (ExitedZero /\ pool = "closed")

\* The part of C8 that the handlers do guarantee: exit(0) happens only after
\* pool.end() has resolved, pool.end() is called in the network variant only
\* after the listener has closed, and a signal handled by the serving process
\* with no client connection left leads to the exit, with status 0 unless
\* pool.end() rejects.
C8_OrderlyShutdown ==
    /\ [](ExitedZero => /\ pool = "closed"
                        /\ SignalHandled
                        /\ variant = "http" => listener = "closed")
    /\ [](variant = "http" /\ pool \in {"ending", "closed", "endFailed"}
            => listener = "closed")
    /\ (proc = "serving" /\ SignalHandled /\ clients = 0)
         ~> (proc = "exited" /\ (ExitedZero \/ pool = "endFailed"))

\* The orderly shutdown happens: the network variant, signalled twice, has closed the listener
\* and the pool and exited with status 0.
C8_Witness ==
    /\ variant = "http" /\ nsig = 2
    /\ ExitedZero /\ pool = "closed" /\ listener = "closed"

\* C10 (as stated): the process serves only with a configuration source
\* loaded; with none found, the startup ends in a non-zero exit with a
\* diagnostic.
C10_NoServiceWithoutConfiguration ==
    /\ (proc = "serving" \/ listener = "listening") => configSource # "none"
    /\ (~envFile /\ ~envVars /\ nsig = 0 /\ proc \in {"serving", "exited"})
         => /\ proc = "exited"
            /\ exit.by = "exit" /\ exit.code # 0
            /\ diag # "none"


----------------------------------------------------------------------------
(* The session router: app.all('/mcp', ...) of http-server.ts.             *)
(*                                                                         *)
(* A transport object is named by its place in transports.  Each carries   *)
(* the identifier its sessionIdGenerator returns (newSessionId), whether   *)
(* the SDK has initialized its session and whether the session was closed, *)
(* and, for the properties, the request whose handler created it.          *)

\* randomUUID(): the n-th identifier drawn; no identifier is drawn twice.
randomUUID(n) == "uuid-" \o ToString(n)

\* What a client may put in the mcp-session-id header: nothing, an
\* identifier no session ever had, or any identifier generated so far.
Headers ==
    {"absent", "bogus"} \cup {transports[t].sessionId : t \in 1..Len(transports)}

Kinds == {"initialize", "call", "delete"}

\* A faulty lookup in the way of the single shared transport: any request
\* is given the first transport there is.
LookupShared(header) ==
    IF transports # <<>> THEN 1 ELSE NoTransport

\* A faulty lookup that finds a transport by the identifier it was made
\* with, whether or not the index holds it.
LookupCreated(header) ==
    IF \E t \in 1..Len(transports) : transports[t].sessionId = header
    THEN CHOOSE t \in 1..Len(transports) : transports[t].sessionId = header
    ELSE NoTransport

\* sessionId ? activeTransports.get(sessionId) : undefined
Lookup(header) ==
    IF header # "absent" /\ header \in DOMAIN activeTransports
    THEN activeTransports[header]
    ELSE NoTransport

\* A faulty callback that shares one transport variable among the requests:
\* it enters the transport made last.
MapSetLatest(m, sid, t) ==
    [k \in DOMAIN m \cup {sid} |-> IF k = sid THEN Len(transports) ELSE m[k]]

\* onsessioninitialized: activeTransports.set(sid, transport)
MapSet(m, sid, t) == [k \in DOMAIN m \cup {sid} |-> IF k = sid THEN t ELSE m[k]]

\* A faulty close that clears the index.
MapDeleteAll(m, sid) == [k \in {} |-> NoTransport]

\* onsessionclosed: activeTransports.delete(sid)
MapDelete(m, sid) == [k \in DOMAIN m \ {sid} |-> m[k]]

\* transport.handleRequest(req, res, req.body) for request r on transport t,
\* which the lookup found or the handler has just made.
\* The SDK's transport answers; of its effects the model keeps the two
\* callbacks the router gave it:
\*   an initialize request on a fresh transport starts the session and
\*   calls onsessioninitialized with the generated identifier;
\*   a DELETE of the transport's own session calls onsessionclosed;
\*   other requests need the transport's session in their header.
HandleRequest(r, t, header, kind, found) ==
    LET tr == transports[t]
        valid == tr.initialized /\ ~tr.closed /\ header = tr.sessionId
    IN  CASE kind = "initialize" /\ ~tr.initialized ->
               /\ transports' = [transports EXCEPT ![t].initialized = TRUE]
               /\ activeTransports' = MapSet(activeTransports, tr.sessionId, t)
               /\ req' = [req EXCEPT ![r] =
                            [pc |-> "done", header |-> header, kind |-> kind,
                             found |-> found, transport |-> t, status |-> 200]]
          [] kind = "delete" /\ valid ->
               /\ transports' = [transports EXCEPT ![t].closed = TRUE]
               /\ activeTransports' = MapDelete(activeTransports, tr.sessionId)
               /\ req' = [req EXCEPT ![r] =
                            [pc |-> "done", header |-> header, kind |-> kind,
                             found |-> found, transport |-> t, status |-> 200]]
          [] OTHER ->
               /\ transports' = transports
               /\ activeTransports' = activeTransports
               /\ req' = [req EXCEPT ![r] =
                            [pc |-> "done", header |-> header, kind |-> kind,
                             found |-> found, transport |-> t,
                             status |-> IF kind = "call" /\ valid THEN 200 ELSE 400]]

\* A request arrives: the header is read and looked up.  With a transport
\* found the request is handed to it at once; without, a transport is made
\* with a new identifier and the handler awaits server.connect(transport).
Receive(r, header, kind) ==
    /\ proc = "serving" /\ variant = "http"
    /\ req[r].pc = "new"
    \* requests are numbered as they arrive
    /\ IF r = 1 THEN TRUE ELSE req[r - 1].pc # "new"
    /\ LET t == Lookup(header)
       IN  IF t # NoTransport
           THEN /\ HandleRequest(r, t, header, kind, TRUE)
                /\ UNCHANGED serverTransport
           ELSE /\ transports' = Append(transports,
                      [sessionId |-> randomUUID(Len(transports) + 1),
                       initialized |-> FALSE, closed |-> FALSE, creator |-> r])
                /\ req' = [req EXCEPT ![r] =
                             [pc |-> "connecting", header |-> header, kind |-> kind,
                              found |-> FALSE, transport |-> Len(transports) + 1,
                              status |-> 0]]
                /\ UNCHANGED <<activeTransports, serverTransport>>
    /\ UNCHANGED <<lifeVars, invVars>>

\* server.connect(transport) resolves; the request is handed to the new
\* transport.
ConnectResolved(r) ==
    /\ req[r].pc = "connecting"
    /\ serverTransport' = req[r].transport
    /\ HandleRequest(r, req[r].transport, req[r].header, req[r].kind, FALSE)
    /\ UNCHANGED <<lifeVars, invVars>>

\* server.connect(transport) rejects: nothing in the handler catches it, the
\* request is never handed to a transport and the handler writes no response.
ConnectRejected(r) ==
    /\ req[r].pc = "connecting"
    /\ req' = [req EXCEPT ![r].pc = "failed"]
    /\ UNCHANGED <<transports, activeTransports, serverTransport, lifeVars, invVars>>

RouterInit ==
    /\ Serving("http")
    /\ inv = [i \in Slots |-> IdleSlot]
    /\ poolLeased = 0
    /\ RouterIdle

RouterNext ==
    \/ \E r \in Requests, header \in Headers, kind \in Kinds : Receive(r, header, kind)
    \/ \E r \in Requests : ConnectResolved(r)
    \/ \E r \in Requests : ConnectRejected(r)

RouterSpec == RouterInit /\ [][RouterNext]_vars


----------------------------------------------------------------------------
(* Properties of the router.                                               *)

Dispatched == {r \in Requests : req[r].pc = "done"}

\* The identifier of the transport that request r was handed to.
SessionOf(r) == transports[req[r].transport].sessionId

\* C5: requests that carried the same identifier while it was in the index
\* were handed to the same transport, the one of that session; a request
\* whose identifier was absent or not in the index was handed to a transport
\* made for it, whose identifier is new, and to no transport of another
\* session.
C5_RoutedBySession ==
    /\ \A r1, r2 \in Dispatched :
         (req[r1].found /\ req[r2].found /\ req[r1].header = req[r2].header)
            => req[r1].transport = req[r2].transport
    /\ \A r \in Dispatched :
         IF req[r].found
         THEN /\ SessionOf(r) = req[r].header
              /\ transports[req[r].transport].creator # r
         ELSE /\ transports[req[r].transport].creator = r
              /\ SessionOf(r) # req[r].header
              /\ \A t \in 1..Len(transports) :
                   t # req[r].transport => transports[t].sessionId # SessionOf(r)
              /\ \A q \in Requests :
                   (q # r /\ req[q].pc # "new" /\ req[q].transport = req[r].transport)
                      => req[q].header = SessionOf(r)

\* C5 happens: a session was started, two later requests carrying its
\* identifier reached its transport, and so did none of the others.
C5_Witness ==
    \E r1, r2, r3 \in Dispatched :
        /\ r1 # r2 /\ r2 # r3 /\ r1 # r3
        /\ ~req[r1].found /\ req[r1].kind = "initialize"
        /\ req[r2].found /\ req[r3].found
        /\ req[r2].header = SessionOf(r1) /\ req[r3].header = SessionOf(r1)

\* Request r is handed to a transport in this step.
Handled(r) == req[r].pc # "done" /\ req'[r].pc = "done"

\* Request r arrives in this step.
Arrives(r) == req[r].pc = "new" /\ req'[r].pc # "new"

\* C11 (as stated): whatever message it carries, a request whose identifier
\* is not in the index gets a transport made for it with a new identifier,
\* the server is connected to that transport, and when the request has been
\* handled the index holds the transport under its identifier.
C11_UnboundBecomesBound ==
    [][\A r \in Requests :
         (Handled(r) /\ ~req'[r].found) =>
            LET t == req'[r].transport
            IN  /\ transports'[t].creator = r
                /\ \A u \in 1..Len(transports') :
                     u # t => transports'[u].sessionId # transports'[t].sessionId
                /\ serverTransport' = t
                /\ transports'[t].sessionId \in DOMAIN activeTransports'
                /\ activeTransports'[transports'[t].sessionId] = t]_vars

\* C12: whenever a request is handed to a transport, the server.connect of
\* that transport has completed, and a transport found by lookup is, at the
\* moment of the hand-over, in the index under the request's identifier,
\* initialized and not closed.
C12_NoHalfInitializedDispatch ==
    [][\A r \in Requests :
         Handled(r) =>
            LET t == req'[r].transport
            IN  /\ req'[transports[t].creator].pc = "done"
                /\ req'[r].found =>
                     /\ req'[r].header \in DOMAIN activeTransports
                     /\ activeTransports[req'[r].header] = t
                     /\ transports[t].initialized /\ ~transports[t].closed
                     /\ transports[t].creator # r]_vars

\* C12 happens: a request was handed to the transport of its session while
\* another request was waiting for server.connect, and a session was closed
\* in between.
C12_Witness ==
    \E r, q \in Requests :
        /\ req[r].pc = "done" /\ req[r].found /\ req[r].kind = "delete"
        /\ req[r].status = 200
        /\ q < r /\ req[q].pc = "connecting"

\* C13: the close of session S takes S, and nothing else, out of the index;
\* a request that arrives afterwards carrying S is not found and gets a
\* new transport whose identifier differs from S.
C13_CloseRemovesOnlyItsEntry ==
    /\ [][\A r \in Requests :
            (Handled(r) /\ req'[r].kind = "delete" /\ req'[r].status = 200) =>
               LET S == req'[r].header
               IN  /\ S \in DOMAIN activeTransports
                   /\ DOMAIN activeTransports' = DOMAIN activeTransports \ {S}
                   /\ \A k \in DOMAIN activeTransports' :
                        activeTransports'[k] = activeTransports[k]]_vars
    /\ [][\A r \in Requests :
            (/\ Arrives(r)
             /\ \E t \in 1..Len(transports) :
                  transports[t].closed /\ transports[t].sessionId = req'[r].header) =>
               /\ ~req'[r].found /\ req'[r].pc = "connecting"
               /\ Len(transports') = Len(transports) + 1
               /\ req'[r].transport = Len(transports')
               /\ transports'[Len(transports')].sessionId # req'[r].header
               /\ activeTransports' = activeTransports]_vars

\* C13 happens: with two sessions in the index one was closed, and the other
\* is still there.
C13_Witness ==
    \E r \in Dispatched, t \in 1..Len(transports) :
        /\ req[r].kind = "delete" /\ req[r].status = 200
        /\ t # req[r].transport
        /\ transports[req[r].transport].closed
        /\ transports[t].sessionId \in DOMAIN activeTransports
        /\ activeTransports[transports[t].sessionId] = t

\* C14 (as stated): every transport in the index is the one the server is
\* connected to, and a call handed to the transport of a session bound
\* earlier is answered through that transport.
C14_EarlierSessionsStayAttached ==
    /\ [](\A sid \in DOMAIN activeTransports : activeTransports[sid] = serverTransport)
    /\ [][\A r \in Requests :
            (Handled(r) /\ req'[r].found /\ req'[r].kind = "call"
                        /\ req'[r].status = 200) =>
               serverTransport' = req'[r].transport]_vars

----------------------------------------------------------------------------
(* More properties of the process.                                         *)

\* C15 (as stated): when the cleanup fails, pool.end() rejecting or the
\* listener not finishing its close, the process still terminates.
C15_FailedCleanupStillExits ==
    (pool = "endFailed" \/ (SignalHandled /\ listener = "closing")) ~> proc = "exited"

\* C19: the listener starts listening in the step in which the probe's lease
\* resolves and is released, and not before; a startup that ends at the probe
\* ends with a non-zero status and a diagnostic without a listener; while
\* the process serves, the probe holds no connection.
C19_ListensAfterProbe ==
    /\ []((proc = "serving" \/ listener # "none") => poolLeased = 0)
    /\ [](listener # "none" => variant = "http" /\ proc \in {"serving", "exited"})
    /\ [](diag = DiagFatalStartup =>
            /\ listener = "none" /\ proc = "exited"
            /\ exit.by = "exit" /\ exit.code # 0)
    /\ [][(listener # "listening" /\ listener' = "listening") =>
            /\ proc = "probe" /\ proc' = "serving"
            /\ pool = "open" /\ poolLeased' = poolLeased]_vars
    /\ [][(variant = "http" /\ proc = "probe" /\ proc' = "exited" /\ exit'.by = "exit") =>
            /\ exit'.code # 0 /\ diag' # "none"
            /\ listener' = "none"]_vars

\* C19 happens: the network variant listens and has clients connected.
C19_Witness ==
    /\ variant = "http" /\ proc = "serving"
    /\ listener = "listening" /\ clients > 0
    /\ poolLeased = 0

----------------------------------------------------------------------------
(* More properties of the handlers.                                        *)

\* C17 (as stated): a schema read that returned its contents leased one
\* connection and released it, sent the listing and then one definition
\* fetch per listed table, in listing order and nothing else, and returned
\* the definitions of the listed tables, each followed by ";" and a blank
\* line, in listing order.
C17_SchemaListsThenDefines ==
    \A i \in SchemaSlots :
        (inv[i].pc = "done" /\ inv[i].out.type = "contents") =>
            /\ inv[i].leases = 1 /\ inv[i].releases = 1
            /\ Len(inv[i].sent) = Len(inv[i].tables) + 1
            /\ inv[i].sent[1].text = "SHOW TABLES;"
            /\ \A k \in 1..Len(inv[i].tables) :
                 inv[i].sent[k + 1].text = "SHOW CREATE TABLE " \o inv[i].tables[k] \o ";"
            /\ inv[i].out.text = ConcatDefinitions(inv[i].tables)

\* C20: an invocation leases at most once and asks for a connection once,
\* a tool call sends at most one statement, a schema read sends no statement
\* twice, and the step in which a database call fails sends nothing, ends
\* the invocation with an error for the caller, after which it does nothing.
C20_NoRetries ==
    /\ [](\A i \in Slots :
            /\ inv[i].leases <= 1
            /\ inv[i].kind = "tool" => Len(inv[i].sent) <= 1
            /\ \A a, b \in 1..Len(inv[i].sent) :
                 inv[i].sent[a].text = inv[i].sent[b].text => a = b
            /\ inv[i].reply.type = "error" =>
                 /\ inv[i].pc = "done"
                 /\ inv[i].out.type \in {"envelope", "thrown"} /\ inv[i].out.isError)
    /\ [][\A i \in Slots :
            /\ inv'[i].pc = "getConnection" => inv[i].pc \in {"idle", "getConnection"}
            /\ (inv[i].reply.type # "error" /\ inv'[i].reply.type = "error") =>
                 /\ inv'[i].sent = inv[i].sent
                 /\ inv'[i].leases = inv[i].leases
            /\ inv[i].reply.type = "error" =>
                 inv'[i] = inv[i] \/ inv'[i].pc = "idle"]_vars

\* C20 happens: a schema read failed at its second definition fetch, having
\* sent three statements, and a tool call failed at its lease, having sent
\* none.
C20_Witness ==
    \E i \in SchemaSlots, j \in ToolSlots :
        /\ inv[i].reply.type = "error" /\ Len(inv[i].sent) = 3
        /\ inv[i].out.type = "thrown"
        /\ inv[j].reply.type = "error" /\ inv[j].sent = <<>> /\ inv[j].leases = 0

----------------------------------------------------------------------------
(* The handlers at work while the process is told to stop, and the         *)
(* handlers sharing a pool that is nearly used up.                         *)

\* The inputs of these two specifications: a statement that passes the
\* guard and one that does not; an empty listing, one table, a table and a
\* view.
WorkInputs == {kwSelect, <<"D", "R", "O", "P", " ", "t">>}
WorkListings == {<<>>, <<"users">>, <<"users", "v_recent">>}

WorkNext ==
    \/ \E i \in Slots, sql \in WorkInputs : ToolCall(i, sql)
    \/ \E i \in Slots : ToolGetConnectionResolved(i)
    \/ \E i \in Slots, err \in ConnectErrors : ToolGetConnectionRejected(i, err)
    \/ \E i \in Slots, rows \in RowSets : ToolQueryResolved(i, rows)
    \/ \E i \in Slots, err \in QueryErrors : ToolQueryRejected(i, err)
    \/ \E i \in Slots : SchemaRead(i)
    \/ \E i \in Slots : SchemaGetConnectionResolved(i)
    \/ \E i \in Slots, err \in ConnectErrors : SchemaGetConnectionRejected(i, err)
    \/ \E i \in Slots, listing \in WorkListings : ShowTablesResolved(i, listing)
    \/ \E i \in Slots, err \in QueryErrors : ShowTablesRejected(i, err)
    \/ \E i \in Slots : ShowCreateResolved(i)
    \/ \E i \in Slots, err \in QueryErrors : ShowCreateRejected(i, err)
    \/ \E i \in Slots : Return(i)

\* The serving process of either variant with signals arriving; a process
\* that has exited runs no continuation.
ShutdownNext ==
    \/ proc # "exited" /\ WorkNext
    \/ ClientConnect
    \/ ClientDisconnect
    \/ Signal
    \/ \E k \in Signals : ListenerClosed(k)
    \/ \E k \in Signals : PoolEndResolved(k)
    \/ \E k \in Signals : PoolEndRejected(k)

ShutdownFairness ==
    /\ \A k \in Signals : WF_vars(ListenerClosed(k))
    /\ \A k \in Signals : WF_vars(PoolEndResolved(k) \/ PoolEndRejected(k))

ShutdownSpec == Init /\ [][ShutdownNext]_vars /\ ShutdownFairness

\* C16 (as stated): a slot that is free once a termination signal has been
\* received never again leases a connection or sends a statement, so no
\* invocation that arrives after the signal does.
C16_NoNewWorkAfterSignal ==
    \A i \in Slots :
        []((nsig > 0 /\ inv[i].pc = "idle") =>
             [](inv[i].leases = 0 /\ inv[i].sent = <<>>))

\* Connections leased to invocations other than the ones followed in the
\* slots: all of the pool but one, so that the slots compete for the last.
HeldElsewhere == connectionLimit - 1

PoolInit ==
    /\ \E v \in Variants : Serving(v)
    /\ inv = [i \in Slots |-> IdleSlot]
    /\ poolLeased = HeldElsewhere
    /\ RouterIdle

\* Every database call returns, one way or the other, and the pool hands a
\* free connection to the calls waiting for one in the order they came
\* (waitForConnections), so a call that finds a connection free again and
\* again gets one.
PoolFairness ==
    \A i \in Slots :
        /\ SF_vars(ToolGetConnectionResolved(i))
        /\ SF_vars(SchemaGetConnectionResolved(i))
        /\ WF_vars((\E rows \in RowSets : ToolQueryResolved(i, rows))
                     \/ (\E err \in QueryErrors : ToolQueryRejected(i, err)))
        /\ WF_vars((\E listing \in WorkListings : ShowTablesResolved(i, listing))
                     \/ (\E err \in QueryErrors : ShowTablesRejected(i, err)))
        /\ WF_vars(ShowCreateResolved(i)
                     \/ (\E err \in QueryErrors : ShowCreateRejected(i, err)))

PoolSpec == PoolInit /\ [][WorkNext]_vars /\ PoolFairness

\* C18: an invocation holds at most one connection and none once it has
\* its result, the pool never lends more than its limit, and every
\* invocation that has started gets its result.
C18_EveryInvocationResponds ==
    /\ [](\A i \in Slots :
            /\ inv[i].leases - inv[i].releases \in {0, 1}
            /\ inv[i].conn <=> inv[i].leases - inv[i].releases = 1
            /\ inv[i].pc = "done" => ~inv[i].conn)
    /\ [](poolLeased <= connectionLimit)
    /\ [](poolLeased = HeldElsewhere + Cardinality({i \in Slots : inv[i].conn}))
    /\ \A i \in Slots : (inv[i].pc # "idle") ~> (inv[i].pc = "done")

\* C18 happens: the pool has lent all ten connections, one invocation is in
\* its loop of definition fetches and another waits for a connection.
C18_Witness ==
    \E i, j \in Slots :
        /\ poolLeased = connectionLimit
        /\ inv[i].pc = "showCreate" /\ inv[i].conn
        /\ inv[j].pc = "getConnection"

----------------------------------------------------------------------------
(* Consistency of the index.                                               *)

\* C21: every key of the index is the identifier its transport was made
\* with, no transport is in the index under two keys, and every transport in
\* the index has had its session initialized and not closed, whatever the
\* order in which sessions being made at the same time are completed.
C21_IndexConsistent ==
    /\ \A sid \in DOMAIN activeTransports :
         /\ activeTransports[sid] \in 1..Len(transports)
         /\ transports[activeTransports[sid]].sessionId = sid
         /\ transports[activeTransports[sid]].initialized
         /\ ~transports[activeTransports[sid]].closed
    /\ \A a, b \in DOMAIN activeTransports :
         activeTransports[a] = activeTransports[b] => a = b
    /\ \A t, u \in 1..Len(transports) :
         transports[t].sessionId = transports[u].sessionId => t = u

\* C21 happens: two sessions are in the index and the transport made first
\* was connected last, so the two were being made at the same time.
C21_Witness ==
    /\ Cardinality(DOMAIN activeTransports) = 2
    /\ Len(transports) = 2
    /\ serverTransport = 1
    /\ transports[1].initialized /\ transports[2].initialized

====
